---- MODULE Spec2Model ----
(***************************************************************************)
(* A model of run_analysis (src/SwingTrade.py): the per-ticker loop that   *)
(* fetches a frame of daily bars, computes the indicators, classifies the  *)
(* last five closes, composes the signal label and appends one record.     *)
(*                                                                         *)
(* Numbers.  Prices and indicator values are fixed-point numbers counted   *)
(* in thousandths, so that round(x, 2) is a real operation (it rounds to   *)
(* a multiple of 10).  A pandas/numpy float that may be NaN is a sequence: *)
(* <<v>> is the number v, <<>> is NaN; every comparison with NaN is FALSE, *)
(* as in Python.  Volumes are integers.                                    *)
(*                                                                         *)
(* Library calls.  RSIIndicator, MACD and AverageTrueRange (package ta)    *)
(* are not part of the repository: the value each returns at the last bar  *)
(* is a field of the fetched frame (data.ta), constrained by TaContract.   *)
(* Series.rolling(10).mean() and Series.ewm(span).mean() are computed,     *)
(* exactly, over the whole column.                                         *)
(***************************************************************************)
EXTENDS Integers, Sequences, FiniteSets, TLC

VARIABLES tickers, idx, data, records, log, pc

vars == <<tickers, idx, data, records, log, pc>>

----------------------------------------------------------------------------
(* Bounds of the model *)

MaxTickers == 2
MaxTail == 6
MidPad == 20
LongPad == 35

----------------------------------------------------------------------------
(* Floats that may be NaN *)

NaN == <<>>
Num(v) == <<v>>
IsNaN(x) == x = <<>>
Val(x) == x[1]

\* a < b on floats: FALSE when either side is NaN
FLess(a, b) == ~IsNaN(a) /\ ~IsNaN(b) /\ Val(a) < Val(b)

Abs(v) == IF v < 0 THEN 0 - v ELSE v

\* round(v, 2) of a number counted in thousandths: the nearest multiple of
\* 10, a tie going to the even hundredth (numpy rounds half to even)
Round2(v) ==
    LET q == v \div 10
        r == v % 10
    IN  IF r < 5 THEN 10 * q
        ELSE IF r > 5 THEN 10 * (q + 1)
        ELSE IF q % 2 = 0 THEN 10 * q ELSE 10 * (q + 1)

\* round(x, 2) of a float: NaN stays NaN
Round2F(x) == IF IsNaN(x) THEN NaN ELSE Num(Round2(Val(x)))

----------------------------------------------------------------------------
(* Exact arithmetic for the exponentially weighted means: naturals of any  *)
(* size as little-endian sequences of digits in base BigBase               *)

BigBase == 100 * 100

RECURSIVE BigOfInt(_)
BigOfInt(n) == IF n = 0 THEN <<>> ELSE <<n % BigBase>> \o BigOfInt(n \div BigBase)

RECURSIVE BigAddC(_, _, _)
BigAddC(a, b, c) ==
    IF a = <<>> /\ b = <<>> THEN BigOfInt(c)
    ELSE LET da == IF a = <<>> THEN 0 ELSE Head(a)
             db == IF b = <<>> THEN 0 ELSE Head(b)
             ra == IF a = <<>> THEN <<>> ELSE Tail(a)
             rb == IF b = <<>> THEN <<>> ELSE Tail(b)
             s == da + db + c
         IN  <<s % BigBase>> \o BigAddC(ra, rb, s \div BigBase)

BigAdd(a, b) == BigAddC(a, b, 0)

RECURSIVE BigMulSC(_, _, _)
BigMulSC(a, m, c) ==
    IF a = <<>> THEN BigOfInt(c)
    ELSE LET s == Head(a) * m + c
         IN  <<s % BigBase>> \o BigMulSC(Tail(a), m, s \div BigBase)

\* a * m for a small m (m < 200000)
BigMulS(a, m) == BigMulSC(a, m, 0)

RECURSIVE BigMul(_, _)
BigMul(a, b) ==
    IF b = <<>> THEN <<>>
    ELSE BigAdd(BigMulS(a, Head(b)), <<0>> \o BigMul(a, Tail(b)))

RECURSIVE BigStrip(_)
BigStrip(a) ==
    IF a = <<>> THEN <<>>
    ELSE IF a[Len(a)] = 0 THEN BigStrip(SubSeq(a, 1, Len(a) - 1)) ELSE a

RECURSIVE BigLessN(_, _)
BigLessN(a, b) ==
    IF a = <<>> THEN FALSE
    ELSE LET n == Len(a)
         IN  IF a[n] # b[n] THEN a[n] < b[n]
             ELSE BigLessN(SubSeq(a, 1, n - 1), SubSeq(b, 1, n - 1))

BigLess(a, b) ==
    LET x == BigStrip(a)
        y == BigStrip(b)
    IN  IF Len(x) # Len(y) THEN Len(x) < Len(y) ELSE BigLessN(x, y)

\* m/e < n/f for positive fractions <<numerator, denominator>>
FracLess(f, g) == BigLess(BigMul(f[1], g[2]), BigMul(g[1], f[2]))

----------------------------------------------------------------------------
(* pandas: positional indexing, rolling mean, exponentially weighted mean  *)

\* A variant of Iloc that counts from the front of the series (s.iloc[k-1])
IlocFront(s, k) == s[k]

\* s.iloc[-k]: the k-th most recent element (IndexError when k > len(s),
\* which the callers below exclude or turn into the exception branch)
Iloc(s, k) == s[Len(s) - k + 1]

VolWindow == 10

RECURSIVE SumSeq(_)
SumSeq(s) == IF s = <<>> THEN 0 ELSE Head(s) + SumSeq(Tail(s))

\* VolWindow * volume.rolling(window=VolWindow).mean().iloc[-1]: the sum of
\* the trailing window, NaN while the column is shorter than the window
RollingSum(volume) ==
    IF Len(volume) < VolWindow THEN NaN
    ELSE Num(SumSeq(SubSeq(volume, Len(volume) - VolWindow + 1, Len(volume))))

\* A variant of VolSpike with >= for >
VolSpikeInclusive(volume) ==
    LET s == RollingSum(volume)
    IN  ~IsNaN(s) /\ 2 * VolWindow * volume[Len(volume)] >= 3 * Val(s)

\* volume.iloc[-1] > 1.5 * avg_volume, with avg_volume = RollingSum / VolWindow
VolSpike(volume) ==
    LET s == RollingSum(volume)
    IN  ~IsNaN(s) /\ 2 * VolWindow * Iloc(volume, 1) > 3 * Val(s)

\* close.ewm(span).mean() (adjust=True, the default) weighs the bars of the
\* column by powers of w = 1 - 2/(span+1) = (span-1)/(span+1) = wp/wq:
\*   y_n = (sum_j w^(n-j) x_j) / (sum_j w^(n-j))
\* (span is odd here, so wp and wq are the halves of span-1 and span+1)
EwmP(span) == (span - 1) \div 2
EwmQ(span) == (span + 1) \div 2

\* EwmSeg sums a segment lo..hi of n bars, scaled by wq^(n-1):
\*   m = sum_j wp^(n-j) wq^(j-1) x_j,  e = the same with x_j = 1,
\*   pw = wp^n, qw = wq^n
\* (two halves a, b combine to pw_b * m_a + qw_a * m_b)
RECURSIVE EwmSeg(_, _, _, _)
EwmSeg(s, span, lo, hi) ==
    IF lo = hi
    THEN [m |-> BigOfInt(s[lo]), e |-> BigOfInt(1),
          pw |-> BigOfInt(EwmP(span)), qw |-> BigOfInt(EwmQ(span))]
    ELSE LET mid == (lo + hi) \div 2
             a == EwmSeg(s, span, lo, mid)
             b == EwmSeg(s, span, mid + 1, hi)
         IN  [m |-> BigAdd(BigMul(b.pw, a.m), BigMul(a.qw, b.m)),
              e |-> BigAdd(BigMul(b.pw, a.e), BigMul(a.qw, b.e)),
              pw |-> BigMul(a.pw, b.pw),
              qw |-> BigMul(a.qw, b.qw)]

\* <<ema.iloc[-2], ema.iloc[-1]>> for ema = s.ewm(span).mean(), each a
\* fraction <<m, e>>; the last mean takes the last bar into the one before
EwmLastTwo(s, span) ==
    LET n == Len(s)
        a == EwmSeg(s, span, 1, n - 1)
        m == BigAdd(BigMulS(a.m, EwmP(span)), BigMulS(a.qw, s[n]))
        e == BigAdd(BigMulS(a.e, EwmP(span)), a.qw)
    IN  <<(<<a.m, a.e>>), (<<m, e>>)>>

----------------------------------------------------------------------------
(* The steps of one iteration of run_analysis *)

\* MA crossover detection
Crossover(close) ==
    LET ema_9 == EwmLastTwo(close, 9)
        ema_21 == EwmLastTwo(close, 21)
    IN  IF FracLess(ema_9[1], ema_21[1]) /\ FracLess(ema_21[2], ema_9[2])
          THEN "Bullish Crossover"
        ELSE IF FracLess(ema_21[1], ema_9[1]) /\ FracLess(ema_9[2], ema_21[2])
          THEN "Bearish Crossover"
        ELSE "None"

\* A variant of RsiMacdCombo with the band closed: 40 <= rsi <= 60
RsiMacdComboInclusive(rsi, macd_diff) ==
    /\ ~IsNaN(rsi) /\ Val(rsi) >= 40000 /\ Val(rsi) <= 60000
    /\ FLess(Num(0), macd_diff)

\* RSI + MACD combo: 40 < rsi < 60 and macd_diff > 0
RsiMacdCombo(rsi, macd_diff) ==
    FLess(Num(40000), rsi) /\ FLess(rsi, Num(60000)) /\ FLess(Num(0), macd_diff)

\* A variant of DetectPattern that tries Head & Shoulders before Rising Wedge
DetectPatternHeadFirst(close) ==
    LET c1 == close[Len(close)]
        c2 == close[Len(close) - 1]
        c3 == close[Len(close) - 2]
        c4 == close[Len(close) - 3]
        c5 == close[Len(close) - 4]
        max42 == IF c4 > c2 THEN c4 ELSE c2
    IN  IF Len(close) >= 5
        THEN IF c3 < c4 /\ c1 > c3
               THEN IF c1 > c2 THEN <<"Double Bottom", "Bullish">>
                    ELSE <<"None", "Neutral">>
             ELSE IF c4 > c3 /\ c3 < c2 /\ c1 > c2
               THEN IF c1 > max42 THEN <<"Inverse Head & Shoulders", "Bullish">>
                    ELSE <<"None", "Neutral">>
             ELSE IF c5 > c4 /\ c4 > c3 /\ c3 < c2 /\ c2 < c1
               THEN <<"Falling Wedge", "Bullish">>
             ELSE IF c4 < c3 /\ c3 > c2 /\ c1 < c2
               THEN <<"Head & Shoulders", "Bearish">>
             ELSE IF c5 < c4 /\ c4 < c3 /\ c3 > c2 /\ c2 > c1
               THEN <<"Rising Wedge", "Bearish">>
             ELSE <<"None", "Neutral">>
        ELSE <<"None", "Neutral">>

\* A variant of DetectPattern whose first test reads close.iloc[-5] where the
\* code reads close.iloc[-4]
DetectPatternShifted(close) ==
    LET c1 == close[Len(close)]
        c2 == close[Len(close) - 1]
        c3 == close[Len(close) - 2]
        c4 == close[Len(close) - 3]
        c5 == close[Len(close) - 4]
        max42 == IF c4 > c2 THEN c4 ELSE c2
    IN  IF Len(close) >= 5
        THEN IF c3 < c5 /\ c1 > c3
               THEN IF c1 > c2 THEN <<"Double Bottom", "Bullish">>
                    ELSE <<"None", "Neutral">>
             ELSE IF c4 > c3 /\ c3 < c2 /\ c1 > c2
               THEN IF c1 > max42 THEN <<"Inverse Head & Shoulders", "Bullish">>
                    ELSE <<"None", "Neutral">>
             ELSE IF c5 > c4 /\ c4 > c3 /\ c3 < c2 /\ c2 < c1
               THEN <<"Falling Wedge", "Bullish">>
             ELSE IF c5 < c4 /\ c4 < c3 /\ c3 > c2 /\ c2 > c1
               THEN <<"Rising Wedge", "Bearish">>
             ELSE IF c4 < c3 /\ c3 > c2 /\ c1 < c2
               THEN <<"Head & Shoulders", "Bearish">>
             ELSE <<"None", "Neutral">>
        ELSE <<"None", "Neutral">>

\* Pattern detection with index checks: <<pattern, trend>>
DetectPattern(close) ==
    LET c1 == Iloc(close, 1)
        c2 == Iloc(close, 2)
        c3 == Iloc(close, 3)
        c4 == Iloc(close, 4)
        c5 == Iloc(close, 5)
        max42 == IF c4 > c2 THEN c4 ELSE c2
    IN  IF Len(close) >= 5
        THEN IF c3 < c4 /\ c1 > c3
               THEN IF c1 > c2 THEN <<"Double Bottom", "Bullish">>
                    ELSE <<"None", "Neutral">>
             ELSE IF c4 > c3 /\ c3 < c2 /\ c1 > c2
               THEN IF c1 > max42 THEN <<"Inverse Head & Shoulders", "Bullish">>
                    ELSE <<"None", "Neutral">>
             ELSE IF c5 > c4 /\ c4 > c3 /\ c3 < c2 /\ c2 < c1
               THEN <<"Falling Wedge", "Bullish">>
             ELSE IF c5 < c4 /\ c4 < c3 /\ c3 > c2 /\ c2 > c1
               THEN <<"Rising Wedge", "Bearish">>
             ELSE IF c4 < c3 /\ c3 > c2 /\ c1 < c2
               THEN <<"Head & Shoulders", "Bearish">>
             ELSE <<"None", "Neutral">>
        ELSE <<"None", "Neutral">>

\* A variant of Gap with >= for >
GapInclusive(current_price, prev_price, atr) ==
    IF ~IsNaN(atr) /\ Abs(current_price - prev_price) >= Val(atr)
    THEN current_price - prev_price
    ELSE 0

\* gap = current_price - prev_price if abs(current_price - prev_price) > atr else 0
Gap(current_price, prev_price, atr) ==
    IF FLess(atr, Num(Abs(current_price - prev_price)))
    THEN current_price - prev_price
    ELSE 0

\* A variant of SignalList that appends the volume spike before the combo
SignalListSwapped(crossover, rsi_macd_combo, vol_spike) ==
    (IF crossover # "None" THEN <<crossover>> ELSE <<>>)
    \o (IF vol_spike THEN <<"Volume Spike">> ELSE <<>>)
    \o (IF rsi_macd_combo THEN <<"RSI+MACD Combo">> ELSE <<>>)

\* Composite signal summary: the list of the triggered labels
SignalList(crossover, rsi_macd_combo, vol_spike) ==
    (IF crossover # "None" THEN <<crossover>> ELSE <<>>)
    \o (IF rsi_macd_combo THEN <<"RSI+MACD Combo">> ELSE <<>>)
    \o (IF vol_spike THEN <<"Volume Spike">> ELSE <<>>)

\* ", ".join(signals)
RECURSIVE Join(_)
Join(signals) ==
    IF signals = <<>> THEN ""
    ELSE IF Len(signals) = 1 THEN signals[1]
    ELSE signals[1] \o ", " \o Join(Tail(signals))

\* ", ".join(signals) if signals else "None"
SignalLabel(signals) == IF signals # <<>> THEN Join(signals) ELSE "None"

\* sub in s, on strings
Contains(s, sub) ==
    \E i \in 1..(Len(s) - Len(sub) + 1) : SubSeq(s, i, i + Len(sub) - 1) = sub

\* prob = 80 if trend == "Bullish" and "Combo" in signal_label else 60
Prob(trend, signal_label) ==
    IF trend = "Bullish" /\ Contains(signal_label, "Combo") THEN 80 ELSE 60

\* current_price + k * atr as a float
Target(current_price, atr, k) ==
    IF IsNaN(atr) THEN NaN ELSE Num(current_price + k * Val(atr))

\* The record appended for a ticker whose frame d is processed to the end.
\* The guards "if rsi is not None", "if not volume.empty" of the record are
\* always true here (close is not empty), so no field is ever None.
Analyse(ticker, d) ==
    LET close == d.close
        volume == d.volume
        rsi == d.ta.rsi
        macd_diff == d.ta.macd_diff
        atr == d.ta.atr
        current_price == Iloc(close, 1)
        prev_price == Iloc(close, 2)
        vol_spike == VolSpike(volume)
        gap == Gap(current_price, prev_price, atr)
        crossover == Crossover(close)
        rsi_macd_combo == RsiMacdCombo(rsi, macd_diff)
        pt == DetectPattern(close)
        signal_label == SignalLabel(SignalList(crossover, rsi_macd_combo, vol_spike))
    IN  [Timestamp |-> "now",
         Ticker |-> ticker,
         Pattern |-> pt[1],
         Trend |-> pt[2],
         RSI |-> Round2F(rsi),
         MACD |-> Round2F(macd_diff),
         ATR |-> Round2F(atr),
         Volume |-> Iloc(volume, 1),
         Gap |-> Round2(gap),
         CurrentPrice |-> Round2(current_price),
         Price_Target_Up |-> Round2F(Target(current_price, atr, 2)),
         Price_Target_Down |-> Round2F(Target(current_price, atr, -2)),
         Probability |-> Prob(pt[2], signal_label),
         Signals |-> signal_label]

----------------------------------------------------------------------------
(* Fetched frames: what fetch_stock_data returns for a ticker, with the    *)
(* values package ta computes from it                                      *)

\* Bars after which package ta has a value at the last bar (RSI and ATR:
\* window 14 plus one bar; MACD histogram: 26 + 9 bars).  With one bar fewer
\* the value may or may not be there, depending on how the installed version
\* counts the first difference.
RsiBars == 15
AtrBars == 15
MacdBars == 35

Pad(v, n) == [i \in 1..n |-> v]

IsFlat(s) == \A i \in 1..Len(s) : s[i] = s[1]

\* pd.DataFrame(): no row, nothing computed from it
EmptyFrame ==
    [close |-> <<>>, volume |-> <<>>,
     ta |-> [rsi |-> NaN, macd_diff |-> NaN, atr |-> NaN, raises |-> FALSE]]

\* What the three ta calls can return for the columns of d.  Too few bars:
\* NaN, and AverageTrueRange either returns NaN or raises IndexError,
\* depending on the installed version (nothing is called on an empty frame).
\* A flat close column: MACD histogram 0, RSI 100 (no loss) or NaN (0/0),
\* depending on the version.  ATR is never negative.
TaContract(d) ==
    LET n == Len(d.close)
        t == d.ta
    IN  /\ n < RsiBars - 1 => IsNaN(t.rsi)
        /\ n < MacdBars - 1 => IsNaN(t.macd_diff)
        /\ n < AtrBars - 1 => IsNaN(t.atr)
        /\ t.raises => n > 0 /\ n < AtrBars - 1 /\ IsNaN(t.atr)
        /\ n >= AtrBars => ~IsNaN(t.atr) /\ Val(t.atr) >= 0
        /\ n >= RsiBars /\ IsFlat(d.close) => t.rsi \in {NaN, Num(100000)}
        /\ n >= RsiBars /\ ~IsFlat(d.close) =>
               ~IsNaN(t.rsi) /\ Val(t.rsi) >= 0 /\ Val(t.rsi) <= 100000
        /\ n >= MacdBars => ~IsNaN(t.macd_diff)
        /\ n >= MacdBars /\ IsFlat(d.close) => t.macd_diff = Num(0)

\* All sequences over S of length at most n
RECURSIVE SeqsUpTo(_, _)
SeqsUpTo(S, n) ==
    IF n = 0 THEN {<<>>}
    ELSE LET shorter == SeqsUpTo(S, n - 1)
         IN  shorter \cup {Append(s, x) : s \in {t \in shorter : Len(t) = n - 1}, x \in S}

\* The frames with a close column c0,...,c0 (pad times) followed by a tail of
\* tails, a volume column of the same length ending in a tail of vtails (cut
\* or padded with v0 to the length of the close column), and ta values
\* drawn from the given sets
FitVolume(n, v0, vt) ==
    IF Len(vt) >= n THEN SubSeq(vt, Len(vt) - n + 1, Len(vt))
    ELSE Pad(v0, n - Len(vt)) \o vt

Frames(pads, c0s, tails, v0s, vtails, rsis, macds, atrs) ==
    { d \in { [close |-> Pad(c0, pad) \o ct,
               volume |-> FitVolume(pad + Len(ct), v0, vt),
               ta |-> [rsi |-> r, macd_diff |-> m, atr |-> a, raises |-> x]] :
                 pad \in pads, c0 \in c0s, ct \in tails, v0 \in v0s, vt \in vtails,
                 r \in rsis, m \in macds, a \in atrs, x \in BOOLEAN } :
        TaContract(d) }

----------------------------------------------------------------------------
(* run_analysis(tickers) *)

\* tickers = ["AAPL", "MSFT", "TSLA", "GOOGL", "AMZN"]
Tickers == {"AAPL", "MSFT", "TSLA", "GOOGL", "AMZN"}

\* The selections of the sidebar multiselect: no ticker twice, none empty
\* (an empty selection is replaced by the whole list before the call)
Batches(n) ==
    { b \in SeqsUpTo(Tickers, n) :
        b # <<>> /\ \A i, j \in 1..Len(b) : b[i] = b[j] => i = j }

InitWith(batches) ==
    /\ tickers \in batches
    /\ idx = 1
    /\ data = EmptyFrame
    /\ records = <<>>
    /\ log = <<>>
    /\ pc = "loop"

\* An exception inside the try block of the iteration: a ta call raises, or
\* close.iloc[-2] does (a single bar)
Raises(d) == d.ta.raises \/ Len(d.close) < 2

\* if data.empty: warning, continue
NoData(feed) ==
    /\ pc = "loop"
    /\ idx <= Len(tickers)
    /\ \E d \in feed :
           /\ d.close = <<>>
           /\ data' = d
           /\ log' = Append(log, <<"No data", tickers[idx]>>)
           /\ idx' = idx + 1
           /\ UNCHANGED <<tickers, records, pc>>

\* A variant of Failed in which the exception leaves the loop
FailedAborts(feed) ==
    /\ pc = "loop"
    /\ idx <= Len(tickers)
    /\ \E d \in feed :
           /\ d.close # <<>>
           /\ d.ta.raises \/ Len(d.close) < 2
           /\ data' = d
           /\ log' = Append(log, <<"Error processing", tickers[idx]>>)
           /\ idx' = Len(tickers) + 1
           /\ UNCHANGED <<tickers, records, pc>>

\* except Exception: error logged, the loop goes on
Failed(feed) ==
    /\ pc = "loop"
    /\ idx <= Len(tickers)
    /\ \E d \in feed :
           /\ d.close # <<>>
           /\ Raises(d)
           /\ data' = d
           /\ log' = Append(log, <<"Error processing", tickers[idx]>>)
           /\ idx' = idx + 1
           /\ UNCHANGED <<tickers, records, pc>>

\* the iteration runs to records.append
Emit(feed) ==
    /\ pc = "loop"
    /\ idx <= Len(tickers)
    /\ \E d \in feed :
           /\ d.close # <<>>
           /\ ~Raises(d)
           /\ data' = d
           /\ records' = Append(records, Analyse(tickers[idx], d))
           /\ idx' = idx + 1
           /\ UNCHANGED <<tickers, log, pc>>

\* return records
Return ==
    /\ pc = "loop"
    /\ idx > Len(tickers)
    /\ pc' = "returned"
    /\ UNCHANGED <<tickers, idx, data, records, log>>

----------------------------------------------------------------------------
(* Specifications: the loop, fed with different sets of frames *)

\* Price levels, in thousandths
Prices == {1000, 1004, 1010}

\* Volume levels
Vols == {0, 100, 200}

\* Closes 10, 9, 8, 9, 10 and 8, 9, 10, 9, 8 on the price levels; a head and
\* shoulders; a double bottom whose last close stays under the neckline
DoubleBottomTail == <<1010, 1004, 1000, 1004, 1010>>
RisingWedgeTail == <<1000, 1004, 1010, 1004, 1000>>
HeadShouldersTail == <<1004, 1000, 1010, 1004, 1000>>
UnderNecklineTail == <<1004, 1010, 1000, 1010, 1004>>

ShapeTails == {DoubleBottomTail, RisingWedgeTail, HeadShouldersTail, UnderNecklineTail}

\* Five price levels: every ordering of five closes, ties included
Levels == {1000, 1002, 1004, 1007, 1010}
FiveCloses == {<<a, b, c, d, e>> : a \in Levels, b \in Levels, c \in Levels, d \in Levels, e \in Levels}

\* The batch specification: up to MaxTickers tickers; each fetch returns no
\* row, one bar, or a few bars (for which package ta gives NaN or raises)
FeedBatch ==
    Frames({0}, {1004}, {<<>>, <<1004>>, <<1004, 1010>>, DoubleBottomTail},
           {100}, {<<>>}, {NaN}, {NaN}, {NaN})

Next ==
    \/ NoData(FeedBatch)
    \/ Failed(FeedBatch)
    \/ Emit(FeedBatch)
    \/ Return

Spec == InitWith(Batches(MaxTickers)) /\ [][Next]_vars

\* One ticker; every close column of at most MaxTail bars over three price
\* levels, every column of five bars over five levels, and the shapes after
\* a long flat history
FeedPattern ==
    Frames({0}, {1004}, SeqsUpTo(Prices, MaxTail) \cup FiveCloses, {100}, {<<>>},
           {NaN}, {NaN}, {NaN})
    \cup Frames({LongPad}, {1004}, ShapeTails, {100}, {<<>>},
                {Num(50000)}, {Num(1200)}, {Num(5)})

NextPattern ==
    \/ NoData(FeedPattern)
    \/ Failed(FeedPattern)
    \/ Emit(FeedPattern)
    \/ Return

SpecPattern == InitWith({<<"AAPL">>}) /\ [][NextPattern]_vars

\* One ticker; frames that make the indicator values, the gap, the
\* crossover and the volume spike vary
RsiVals == {NaN, Num(40000), Num(40004), Num(50000), Num(59996), Num(60000), Num(100000)}
MacdVals == {NaN, Num(-1200), Num(0), Num(4), Num(1200)}
AtrVals == {NaN, Num(0), Num(3), Num(5), Num(6), Num(50)}

CrossTails ==
    {<<1004, 1004>>, <<1000, 1010>>, <<1010, 1000>>,
     <<1004, 1000, 1010>>, <<1004, 1010, 1000>>}

FeedCombo ==
    Frames({LongPad}, {1004}, {<<>>, DoubleBottomTail, RisingWedgeTail},
           {100}, {<<>>}, RsiVals, MacdVals, {Num(5)})

FeedGap ==
    Frames({0, MidPad}, {1004}, SeqsUpTo(Prices, 2), {100}, {<<>>},
           {NaN, Num(100000)}, {NaN}, AtrVals)

FeedCross ==
    Frames({0, MidPad, LongPad}, {1004}, CrossTails, {100}, {<<>>, <<200>>},
           {NaN, Num(50000)}, {NaN, Num(0), Num(1200)}, {NaN, Num(5)})

FeedSignals == {EmptyFrame} \cup FeedCombo \cup FeedGap \cup FeedCross

NextSignals ==
    \/ NoData(FeedSignals)
    \/ Failed(FeedSignals)
    \/ Emit(FeedSignals)
    \/ Return

SpecSignals == InitWith({<<"AAPL">>}) /\ [][NextSignals]_vars

\* One ticker; flat closes, volume columns whose length goes through the
\* rolling window
MaxVolTail == 2

FeedVolume ==
    Frames(0..VolWindow \cup {MidPad}, {1004}, {<<>>}, Vols,
           SeqsUpTo(Vols, MaxVolTail), {NaN, Num(100000)}, {NaN}, {NaN, Num(5)})

NextVolume ==
    \/ NoData(FeedVolume)
    \/ Failed(FeedVolume)
    \/ Emit(FeedVolume)
    \/ Return

SpecVolume == InitWith({<<"AAPL">>}) /\ [][NextVolume]_vars

----------------------------------------------------------------------------
(* Properties *)

\* The last iteration appended a record: it was computed from data
LastEmitted ==
    /\ idx > 1
    /\ records # <<>>
    /\ records[Len(records)].Ticker = tickers[idx - 1]

LastRecord == records[Len(records)]

RecordFields ==
    {"Timestamp", "Ticker", "Pattern", "Trend", "RSI", "MACD", "ATR", "Volume",
     "Gap", "CurrentPrice", "Price_Target_Up", "Price_Target_Down",
     "Probability", "Signals"}

\* The ordered rule table of the pattern detector: each rule the full
\* conjunction of its conditions, the first rule that matches wins
RuleTable(close) ==
    LET c1 == Iloc(close, 1)
        c2 == Iloc(close, 2)
        c3 == Iloc(close, 3)
        c4 == Iloc(close, 4)
        c5 == Iloc(close, 5)
        neck == IF c4 > c2 THEN c4 ELSE c2
    IN  IF Len(close) < 5 THEN <<"None", "Neutral">>
        ELSE IF c3 < c4 /\ c1 > c3 /\ c1 > c2
          THEN <<"Double Bottom", "Bullish">>
        ELSE IF c4 > c3 /\ c3 < c2 /\ c1 > c2 /\ c1 > neck
          THEN <<"Inverse Head & Shoulders", "Bullish">>
        ELSE IF c5 > c4 /\ c4 > c3 /\ c3 < c2 /\ c2 < c1
          THEN <<"Falling Wedge", "Bullish">>
        ELSE IF c5 < c4 /\ c4 < c3 /\ c3 > c2 /\ c2 > c1
          THEN <<"Rising Wedge", "Bearish">>
        ELSE IF c4 < c3 /\ c3 > c2 /\ c1 < c2
          THEN <<"Head & Shoulders", "Bearish">>
        ELSE <<"None", "Neutral">>

\* C1: the (pattern, trend) pair of every record is what the ordered rule
\* table gives on the close column it was computed from (fewer than 5
\* closes: None, Neutral), also when only part of rule 1 or rule 2 matches.
C1_PatternIsRuleTable ==
    LastEmitted =>
        <<LastRecord.Pattern, LastRecord.Trend>> = RuleTable(data.close)

\* C1, witness: a record whose closes pass the first two tests of rule 1 and
\* fail its neckline test
C1_Witness ==
    /\ LastEmitted
    /\ Len(data.close) >= 5
    /\ Iloc(data.close, 3) < Iloc(data.close, 4)
    /\ Iloc(data.close, 1) > Iloc(data.close, 3)
    /\ ~(Iloc(data.close, 1) > Iloc(data.close, 2))
    /\ LastRecord.Pattern = "None"

\* C2: every ticker gone through contributed either exactly one complete
\* record or one log entry (empty frame, or exception) and no record; the
\* records are those of the tickers not logged, in input order; and the call
\* returns only after the whole batch, with N - k records.
C2_BatchIsolation ==
    LET done == SubSeq(tickers, 1, idx - 1)
        skipped == {log[i][2] : i \in 1..Len(log)}
        Kept(t) == t \notin skipped
    IN  /\ Len(records) + Len(log) = idx - 1
        /\ [i \in 1..Len(records) |-> records[i].Ticker] = SelectSeq(done, Kept)
        /\ \A i \in 1..Len(records) : DOMAIN records[i] = RecordFields
        /\ pc = "returned" =>
               /\ idx = Len(tickers) + 1
               /\ Len(records) = Len(tickers) - Len(log)

\* C2, witness: a returned batch of two whose first ticker failed or had no
\* data and whose second ticker still has its record
C2_Witness ==
    /\ pc = "returned"
    /\ Len(tickers) = 2
    /\ Len(log) = 1
    /\ log[1][2] = tickers[1]
    /\ Len(records) = 1
    /\ records[1].Ticker = tickers[2]

\* C3: Probability is 80 exactly when Trend is Bullish and Signals contains
\* "RSI+MACD Combo", which it does exactly when 40 < rsi < 60 and
\* macd_diff > 0; it is 60 otherwise.
C3_Probability ==
    LastEmitted =>
        LET rsi == data.ta.rsi
            macd == data.ta.macd_diff
            held == /\ ~IsNaN(rsi) /\ Val(rsi) > 40000 /\ Val(rsi) < 60000
                    /\ ~IsNaN(macd) /\ Val(macd) > 0
            combo == Contains(LastRecord.Signals, "RSI+MACD Combo")
        IN  /\ combo <=> held
            /\ LastRecord.Probability \in {60, 80}
            /\ LastRecord.Probability = 80 <=> (LastRecord.Trend = "Bullish" /\ combo)

\* C3, witness: a record with probability 80
C3_Witness ==
    /\ LastEmitted
    /\ LastRecord.Trend = "Bullish"
    /\ data.ta.rsi = Num(50000)
    /\ data.ta.macd_diff = Num(1200)
    /\ LastRecord.Probability = 80

\* The conditions of the three signals, from the frame
BullishCross ==
    LET e9 == EwmLastTwo(data.close, 9)
        e21 == EwmLastTwo(data.close, 21)
    IN  FracLess(e9[1], e21[1]) /\ FracLess(e21[2], e9[2])

BearishCross ==
    LET e9 == EwmLastTwo(data.close, 9)
        e21 == EwmLastTwo(data.close, 21)
    IN  FracLess(e21[1], e9[1]) /\ FracLess(e9[2], e21[2])

ComboHeld ==
    /\ ~IsNaN(data.ta.rsi) /\ Val(data.ta.rsi) > 40000 /\ Val(data.ta.rsi) < 60000
    /\ ~IsNaN(data.ta.macd_diff) /\ Val(data.ta.macd_diff) > 0

\* The sum of the last VolWindow volumes (of a column that has them)
TrailingSum ==
    LET n == Len(data.volume)
        Sum[i \in 0..VolWindow] == IF i = 0 THEN 0 ELSE data.volume[n - i + 1] + Sum[i - 1]
    IN  Sum[VolWindow]

\* last volume > 1.5 * TrailingSum / VolWindow
SpikeHeld ==
    /\ Len(data.volume) >= VolWindow
    /\ 2 * VolWindow * data.volume[Len(data.volume)] > 3 * TrailingSum

\* C4: a record made from a series shorter than an indicator's window (15
\* bars for RSI and ATR, 35 for the MACD histogram) has that indicator
\* unavailable, and what depends on the indicators unavailable too: no
\* crossover label and no combo label in Signals, no price targets.
C4_ShortSeriesUnavailable ==
    LastEmitted =>
        LET n == Len(data.close)
            r == LastRecord
        IN  /\ n < RsiBars - 1 => IsNaN(r.RSI)
            /\ n < AtrBars - 1 =>
                   IsNaN(r.ATR) /\ IsNaN(r.Price_Target_Up) /\ IsNaN(r.Price_Target_Down)
            /\ n < MacdBars - 1 =>
                   /\ IsNaN(r.MACD)
                   /\ ~Contains(r.Signals, "RSI+MACD Combo")
                   /\ ~Contains(r.Signals, "Crossover")

\* C5 as stated: the Gap field is 0 or the difference of the last two closes,
\* and it is not 0 only when the difference exceeds ATR.
C5_GapIsDifference ==
    LastEmitted =>
        LET diff == Iloc(data.close, 1) - Iloc(data.close, 2)
            atr == data.ta.atr
        IN  /\ LastRecord.Gap \in {0, diff}
            /\ LastRecord.Gap # 0 => ~IsNaN(atr) /\ Abs(diff) > Val(atr)

\* C5, amended: the Gap field is the difference of the last two closes
\* rounded to two decimals when its absolute value is strictly greater than
\* ATR, and 0 when it is at most ATR or ATR is not available.
C5_GapRounded ==
    LastEmitted =>
        LET n == Len(data.close)
            diff == data.close[n] - data.close[n - 1]
            atr == data.ta.atr
            over == ~IsNaN(atr) /\ (diff > Val(atr) \/ 0 - diff > Val(atr))
        IN  /\ over => LastRecord.Gap = Round2(diff)
            /\ ~over => LastRecord.Gap = 0

\* C5, witness: a difference of 0.006 over an ATR of 0.005, reported as 0.01
C5_Witness ==
    /\ LastEmitted
    /\ Iloc(data.close, 1) - Iloc(data.close, 2) = 6
    /\ data.ta.atr = Num(5)
    /\ LastRecord.Gap = 10

\* C6: Signals is the labels of the conditions that hold, joined by ", " in
\* the order crossover, combo, volume spike, with at most one crossover
\* label, and "None" exactly when no condition holds.
C6_SignalsOrdered ==
    LastEmitted =>
        LET cross == IF BullishCross THEN "Bullish Crossover"
                     ELSE IF BearishCross THEN "Bearish Crossover" ELSE ""
            combo == IF ComboHeld THEN "RSI+MACD Combo" ELSE ""
            spike == IF SpikeHeld THEN "Volume Spike" ELSE ""
            sep1 == IF cross # "" /\ (combo # "" \/ spike # "") THEN ", " ELSE ""
            sep2 == IF combo # "" /\ spike # "" THEN ", " ELSE ""
            all == cross \o sep1 \o combo \o sep2 \o spike
        IN  /\ ~(BullishCross /\ BearishCross)
            /\ LastRecord.Signals = IF all = "" THEN "None" ELSE all
            /\ LastRecord.Signals = "None" <=>
                   ~BullishCross /\ ~BearishCross /\ ~ComboHeld /\ ~SpikeHeld

\* C6, witness: all three labels at once
C6_Witness ==
    /\ LastEmitted
    /\ BullishCross /\ ComboHeld /\ SpikeHeld
    /\ LastRecord.Signals = "Bullish Crossover, RSI+MACD Combo, Volume Spike"

\* C7: "Volume Spike" is in Signals exactly when the last volume is strictly
\* greater than 1.5 times the mean of the last 10 volumes; with fewer than 10
\* volumes or a mean of 0 it is absent, and the frame still gives its record
\* (an iteration fails only for a ta exception or a single bar).
C7_VolumeSpike ==
    /\ LastEmitted =>
           /\ Contains(LastRecord.Signals, "Volume Spike") <=> SpikeHeld
           /\ Len(data.volume) < VolWindow => ~Contains(LastRecord.Signals, "Volume Spike")
           /\ Len(data.volume) >= VolWindow /\ TrailingSum = 0 =>
                  ~Contains(LastRecord.Signals, "Volume Spike")
    /\ idx > 1 /\ Len(data.close) >= 2 /\ ~data.ta.raises => LastEmitted

\* C7, witness: last volume 200 over a trailing mean of 100
C7_Witness ==
    /\ LastEmitted
    /\ Len(data.volume) >= VolWindow
    /\ data.volume[Len(data.volume)] = 200
    /\ TrailingSum = 100 * VolWindow
    /\ Contains(LastRecord.Signals, "Volume Spike")

\* C7, witness of the degenerate case: a trailing mean of 0 and a record
C7_ZeroAverage ==
    /\ LastEmitted
    /\ Len(data.volume) >= VolWindow
    /\ TrailingSum = 0
    /\ LastRecord.Signals = "None"

\* C8: the record of a flat close column long enough for every indicator has
\* RSI 50, MACD 0 and Gap 0, no combo label and probability 60.
C8_FlatSeries ==
    LastEmitted /\ IsFlat(data.close) /\ Len(data.close) >= MacdBars =>
        /\ LastRecord.RSI = Num(50000)
        /\ LastRecord.MACD = Num(0)
        /\ LastRecord.Gap = 0
        /\ ~Contains(LastRecord.Signals, "RSI+MACD Combo")
        /\ LastRecord.Probability = 60

\* The last five closes of a column, and earlier histories to put before them
LastFive(close) == SubSeq(close, Len(close) - 4, Len(close))

Histories == SeqsUpTo(Prices, 2) \cup {Pad(1010, MidPad), Pad(1000, LongPad) \o <<1010>>}

\* C9: the pattern and the trend of a record are those of every series with
\* the same last five closes, whatever comes before them and however long
\* it is.
C9_LastFiveOnly ==
    LastEmitted /\ Len(data.close) >= 5 =>
        \A h \in Histories :
            DetectPattern(h \o LastFive(data.close))
                = <<LastRecord.Pattern, LastRecord.Trend>>

\* C9, witness: a record of a column longer than five bars whose earlier
\* closes are not those of the histories above
C9_Witness ==
    /\ LastEmitted
    /\ Len(data.close) > 5
    /\ data.close[1] = 1004
    /\ LastRecord.Pattern = "Double Bottom"
    /\ DetectPattern(<<1000>> \o LastFive(data.close)) = <<"Double Bottom", "Bullish">>

\* C10: no record has the pattern "Inverse Head & Shoulders" or "Falling
\* Wedge": closes that meet the conditions of either already pass the first
\* test (close[-3] < close[-4] and close[-1] > close[-3]), and the only
\* labels are None, Double Bottom, Rising Wedge and Head & Shoulders.
C10_UnreachableLabels ==
    LastEmitted =>
        /\ LastRecord.Pattern \in {"None", "Double Bottom", "Rising Wedge", "Head & Shoulders"}
        /\ Len(data.close) >= 5 =>
               LET c == LastFive(data.close)
                   neck == IF c[2] > c[4] THEN c[2] ELSE c[4]
                   ihs == c[2] > c[3] /\ c[3] < c[4] /\ c[5] > c[4] /\ c[5] > neck
                   wedge == c[1] > c[2] /\ c[2] > c[3] /\ c[3] < c[4] /\ c[4] < c[5]
               IN  ihs \/ wedge => c[3] < c[2] /\ c[5] > c[3]

\* C10, witness: closes 10, 9, 8, 9, 10 meet the conditions of the Inverse
\* Head & Shoulders and of the Falling Wedge, and are a Double Bottom
C10_Witness ==
    /\ LastEmitted
    /\ Len(data.close) = 5
    /\ data.close = DoubleBottomTail
    /\ LastRecord.Pattern = "Double Bottom"

====
